---- MODULE Spec2Model ----
(***************************************************************************)
(* helium-wallet-rs: the 12-word mnemonic decoder (src/mnemonic/mod.rs)    *)
(* and the --commit gate of the pay and oui commands (src/cmd/pay.rs,      *)
(* src/cmd/oui.rs).                                                        *)
(*                                                                         *)
(* A string is a sequence of characters; a character is a one-character    *)
(* string, or the name of a code point outside ASCII ("U+00E9").  Rust's   *)
(* str::len and the slice s[..n] count UTF-8 bytes, so every character     *)
(* carries its encoded width (Utf8Len).                                    *)
(***************************************************************************)
EXTENDS Integers, Sequences, FiniteSets

VARIABLES
    words,          \* mnemonic_to_entropy: the argument, Vec<String>
    pc,             \* mnemonic_to_entropy: position in the function body
    i,              \* mnemonic_to_entropy: words consumed by the for loop
    bit_vec,        \* mnemonic_to_entropy: the idx_bits pushed so far
    entropy_bits,   \* mnemonic_to_entropy: first half of bits.split_at
    result,         \* mnemonic_to_entropy: what the call returned
    cmd,            \* the subcommand that runs
    commit,         \* its --commit flag
    payer,          \* oui create: its --payer option
    update,         \* oui update: which of the four updates
    cpc,            \* position in the subcommand's run()
    status,         \* run(): the status handed to print_txn
    submitted,      \* number of calls of Client::submit_txn
    printed,        \* number of calls of print_txn / print_update_txn
    payees,         \* pay: the --payee options, Vec<Payee>
    self_fee,       \* pay: the --fee option, Option<u64>
    account,        \* pay: the wallet's account as the API returned it
    oracle_price,   \* pay: the current oracle price, in $ per HNT
    sweep_destination, \* pay: run()'s local of that name
    pay_total,      \* pay: run()'s local of that name
    txn,            \* pay: the fee and the payments of BlockchainTxnPaymentV2
    fee             \* pay: the local fee of the iterative branch

mvars == <<words, pc, i, bit_vec, entropy_bits, result>>
cvars == <<cmd, commit, payer, update, cpc, status, submitted, printed>>
pvars == <<payees, self_fee, account, oracle_price,
           sweep_destination, pay_total, txn, fee>>
vars == <<words, pc, i, bit_vec, entropy_bits, result,
          cmd, commit, payer, update, cpc, status, submitted, printed,
          payees, self_fee, account, oracle_price,
          sweep_destination, pay_total, txn, fee>>

(***************************************************************************)
(* Characters and strings                                                  *)
(***************************************************************************)
UpperCase ==
    <<"A","B","C","D","E","F","G","H","I","J","K","L","M",
      "N","O","P","Q","R","S","T","U","V","W","X","Y","Z">>

LowerCase ==
    <<"a","b","c","d","e","f","g","h","i","j","k","l","m",
      "n","o","p","q","r","s","t","u","v","w","x","y","z">>

\* The code point U+00E9 (e with acute accent): two bytes in UTF-8.
EAcute == "U+00E9"

\* Number of bytes of a character's UTF-8 encoding.
Utf8Len(c) == IF c = EAcute THEN 2 ELSE 1

RECURSIVE ByteLen(_)
\* str::len: the length of a string in bytes.
ByteLen(s) == IF s = <<>> THEN 0 ELSE Utf8Len(Head(s)) + ByteLen(Tail(s))

Min(a, b) == IF a <= b THEN a ELSE b

\* str::is_char_boundary(n): n is 0, the length, or the start of a character.
IsCharBoundary(s, n) ==
    \E k \in 0..Min(n, Len(s)) : ByteLen(SubSeq(s, 1, k)) = n

\* &s[..n] where n is a character boundary: the characters before byte n
\* (k characters take at least k bytes).
SliceTo(s, n) ==
    SubSeq(s, 1, CHOOSE k \in 0..Min(n, Len(s)) : ByteLen(SubSeq(s, 1, k)) = n)

\* The lowercase letter of every ASCII capital.
AsciiLowerOf ==
    [c \in {UpperCase[k] : k \in 1..Len(UpperCase)} |->
        LowerCase[CHOOSE k \in 1..Len(UpperCase) : UpperCase[k] = c]]

\* char::to_ascii_lowercase: 'A'..'Z' to 'a'..'z', every other character kept.
CharToAsciiLowercase(c) ==
    IF c \in DOMAIN AsciiLowerOf THEN AsciiLowerOf[c] ELSE c

\* str::to_ascii_lowercase.
to_ascii_lowercase(s) == [k \in 1..Len(s) |-> CharToAsciiLowercase(s[k])]

(***************************************************************************)
(* The dictionary.  The word list is generated at build time and is not    *)
(* part of the sources; the model carries an excerpt of the BIP39 English  *)
(* list, each word at its index in the full list.  The twelve words of     *)
(* tests::decode_full_words stand at the indices the expected entropy of   *)
(* that test gives them.  The entries left out are words that no input of  *)
(* the model matches.                                                      *)
(***************************************************************************)
WORDS_ENGLISH ==
    << [idx |-> 0,    word |-> <<"a","b","a","n","d","o","n">>],
       [idx |-> 2,    word |-> <<"a","b","l","e">>],
       [idx |-> 19,   word |-> <<"a","c","t">>],
       [idx |-> 20,   word |-> <<"a","c","t","i","o","n">>],
       [idx |-> 53,   word |-> <<"a","l","l","o","w">>],
       [idx |-> 251,  word |-> <<"b","u","y","e","r">>],
       [idx |-> 288,  word |-> <<"c","a","t","c","h">>],
       [idx |-> 348,  word |-> <<"c","l","o","g">>],
       [idx |-> 688,  word |-> <<"f","i","g","u","r","e">>],
       [idx |-> 904,  word |-> <<"i","l","l","e","g","a","l">>],
       [idx |-> 940,  word |-> <<"i","n","t","a","c","t">>],
       [idx |-> 952,  word |-> <<"j","a","c","k","e","t">>],
       [idx |-> 1274, word |-> <<"p","a","l","m">>],
       [idx |-> 1337, word |-> <<"p","o","e","t">>],
       [idx |-> 1538, word |-> <<"s","c","a","r","e">>],
       [idx |-> 1802, word |-> <<"t","h","r","o","w">>],
       [idx |-> 2047, word |-> <<"z","o","o">>] >>

(***************************************************************************)
(* Language::find_word                                                     *)
(***************************************************************************)
MIN_CMP_LEN == 4

\* Option::None, and the abort of a slice that cuts a character in two.
None == -1
Abort == -2

\* An iteration that takes any beginning of a list word, of up to four
\* characters, for the word.
ScanStep_any_prefix(user_word, e) ==
    LET n == Min(Len(user_word), MIN_CMP_LEN)
    IN  IF Len(e.word) >= n /\ SubSeq(user_word, 1, n) = SubSeq(e.word, 1, n)
        THEN e.idx ELSE None

\* An iteration that knows whole words only.
ScanStep_exact_only(user_word, e) == IF user_word = e.word THEN e.idx ELSE None

\* One iteration of the for loop of find_english_word on the lowercased
\* user word and the list entry e: "continue", or what the function returns.
ScanStep(user_word, e) ==
    IF ByteLen(user_word) >= MIN_CMP_LEN /\ ByteLen(e.word) >= MIN_CMP_LEN
    THEN IF ~IsCharBoundary(user_word, MIN_CMP_LEN)
            \/ ~IsCharBoundary(e.word, MIN_CMP_LEN)
         THEN Abort
         ELSE IF SliceTo(user_word, MIN_CMP_LEN) = SliceTo(e.word, MIN_CMP_LEN)
              THEN e.idx
              ELSE IF user_word = e.word THEN e.idx ELSE None
    ELSE IF user_word = e.word THEN e.idx ELSE None

RECURSIVE Scan(_, _)
\* The for loop of find_english_word from list position k on.
Scan(user_word, k) ==
    IF k > Len(WORDS_ENGLISH) THEN None
    ELSE LET r == ScanStep(user_word, WORDS_ENGLISH[k])
         IN  IF r # None THEN r ELSE Scan(user_word, k + 1)

\* The user's word taken as typed.
find_english_word_as_typed(user_word) == Scan(user_word, 1)

find_english_word(user_word) == Scan(to_ascii_lowercase(user_word), 1)

\* The words the phrases of the model are made of (set below), and the
\* resolver's answer for each, evaluated once.
TestWords ==
    << <<"c","a","t","c","h">>, <<"p","o","e","t">>, <<"c","l","o","g">>,
       <<"i","n","t","a","c","t">>, <<"s","c","a","r","e">>,
       <<"j","a","c","k","e","t">>, <<"t","h","r","o","w">>,
       <<"p","a","l","m">>, <<"i","l","l","e","g","a","l">>,
       <<"b","u","y","e","r">>, <<"a","l","l","o","w">>,
       <<"f","i","g","u","r","e">> >>

UserWords ==
    { <<"z","o","o">>,                    \* a list word of three letters
      <<"Z","O","O">>,                    \* the same in capitals
      <<"a","b","a","n","d","o","n">>,    \* the list word of index 0
      <<"C","a","t","c">>,                \* four letters of "catch", one a capital
      <<"c","a","t","c","h","y">>,        \* "catch" and one more letter
      <<"z","z","z","z","z">>,            \* no list word starts like it
      <<"a","c">>,                        \* shorter than any list word
      <<"z","o",EAcute>>,                 \* four bytes, three characters
      <<"a","b","c",EAcute>> }            \* byte 4 is inside the last character

\* The uppercase letter of every ASCII small letter.
AsciiUpperOf ==
    [c \in {LowerCase[k] : k \in 1..Len(LowerCase)} |->
        UpperCase[CHOOSE k \in 1..Len(LowerCase) : LowerCase[k] = c]]

to_ascii_uppercase(s) ==
    [k \in 1..Len(s) |-> IF s[k] \in DOMAIN AsciiUpperOf THEN AsciiUpperOf[s[k]] ELSE s[k]]

\* The first four characters of a word that has at least four.
Abbreviation(w) == IF Len(w) >= 4 THEN SubSeq(w, 1, 4) ELSE w

KnownWords ==
    LET base == {TestWords[k] : k \in 1..Len(TestWords)} \cup UserWords
    IN  base \cup {to_ascii_lowercase(w) : w \in base}
             \cup {to_ascii_uppercase(w) : w \in base}
             \cup {Abbreviation(w) : w \in base}

FoundOnce == [w \in KnownWords |-> find_english_word(w)]

\* Language::find_word: the one language there is.
find_word(user_word) ==
    IF user_word \in KnownWords THEN FoundOnce[user_word]
    ELSE find_english_word(user_word)

(***************************************************************************)
(* Bit strings                                                             *)
(***************************************************************************)
RECURSIVE Binary(_)
\* The binary digits of n, most significant first, without leading zeros
\* ("0" for 0), as the {:b} format writes them.
Binary(n) ==
    IF n < 2 THEN << IF n = 1 THEN "1" ELSE "0" >>
    ELSE Binary(n \div 2) \o << IF n % 2 = 1 THEN "1" ELSE "0" >>

IDX_WIDTH == 11

\* format!("{:011b}", idx): the digits, padded with zeros on the left up to
\* a width of 11; a longer rendering is not cut.
Format011b(idx) ==
    LET d == Binary(idx)
    IN  IF Len(d) >= IDX_WIDTH THEN d
        ELSE [k \in 1..(IDX_WIDTH - Len(d)) |-> "0"] \o d

RECURSIVE Join(_)
\* bit_vec.join("")
Join(v) == IF v = <<>> THEN <<>> ELSE Head(v) \o Join(Tail(v))

\* A checksum of eight bits, as a phrase of 24 words has.
divider_index_24_words(bits) == Len(bits) - 8

\* ((bits.len() as f64 / 33.0) * 32.0).floor() as usize; the quotient is
\* exact for the lengths a call produces (132 = 4 * 33).
divider_index(bits) == (Len(bits) * 32) \div 33

ZERO_CHECKSUM == <<"0", "0", "0", "0">>

CHUNK_LEN == 8

RECURSIVE Chunks(_)
\* RE_BYTES.find_iter: the successive matches of (.{1,8}), each as long as
\* it can be.
Chunks(s) ==
    IF s = <<>> THEN <<>>
    ELSE IF Len(s) <= CHUNK_LEN THEN << s >>
    ELSE << SubSeq(s, 1, CHUNK_LEN) >> \o Chunks(SubSeq(s, CHUNK_LEN + 1, Len(s)))

RECURSIVE binary_to_bytes_lsb_first(_)
\* A parse that takes the first digit as the least significant.
binary_to_bytes_lsb_first(bin) ==
    IF bin = <<>> THEN 0
    ELSE 2 * binary_to_bytes_lsb_first(Tail(bin))
         + (IF Head(bin) = "1" THEN 1 ELSE 0)

RECURSIVE binary_to_bytes(_)
\* usize::from_str_radix(bin, 2)
binary_to_bytes(bin) ==
    IF bin = <<>> THEN 0
    ELSE 2 * binary_to_bytes(SubSeq(bin, 1, Len(bin) - 1))
         + (IF bin[Len(bin)] = "1" THEN 1 ELSE 0)

U8 == 256

ENTROPY_BASE_LEN == 16

\* entropy_base after the loop over the matches: entropy_base[idx] = value as u8.
EntropyBase(e_bits) ==
    LET m == Chunks(e_bits)
    IN  [k \in 1..ENTROPY_BASE_LEN |->
            IF k <= Len(m) THEN binary_to_bytes(m[k]) % U8 ELSE 0]

\* The second copy_from_slice left out.
EntropyBytes_one_copy(base) == base \o [k \in 1..Len(base) |-> 0]

\* entropy_bytes: entropy_base copied to [..16] and to [16..].
EntropyBytes(base) == base \o base

(***************************************************************************)
(* The outcomes of mnemonic_to_entropy                                     *)
(***************************************************************************)
WordCountError == "Invalid number of seed words"
UnknownWordError == "Seed word not found in wordlist"
ChecksumError == "invalid checksum"

Ok(bytes) == [kind |-> "Ok", word |-> <<>>, bytes |-> bytes]
Err(kind, word) == [kind |-> kind, word |-> word, bytes |-> <<>>]
Aborted == [kind |-> "abort", word |-> <<>>, bytes |-> <<>>]
NoResult == [kind |-> "none", word |-> <<>>, bytes |-> <<>>]

WORD_COUNT == 12

\* A test that lets longer phrases through.
InvalidWordCount_too_short_only(ws) == Len(ws) < WORD_COUNT

\* Line 42: words.len() != 12
InvalidWordCount(ws) == Len(ws) # WORD_COUNT

\* Lines 56-79: from the joined bits to the returned value.
CheckAndUnpack(bv) ==
    LET bits == Join(bv)
        d == divider_index(bits)
        e_bits == SubSeq(bits, 1, d)
        checksum_bits == SubSeq(bits, d + 1, Len(bits))
    IN  IF checksum_bits # ZERO_CHECKSUM THEN Err(ChecksumError, <<>>)
        ELSE Ok(EntropyBytes(EntropyBase(e_bits)))

\* mnemonic_to_entropy as a function of its argument.
mnemonic_to_entropy(ws) ==
    IF InvalidWordCount(ws) THEN Err(WordCountError, <<>>)
    ELSE IF \E k \in 1..Len(ws) : find_word(ws[k]) < 0
    THEN LET b == CHOOSE k \in 1..Len(ws) :
                    /\ find_word(ws[k]) < 0
                    /\ \A j \in 1..(k - 1) : find_word(ws[j]) >= 0
         IN  IF find_word(ws[b]) = Abort THEN Aborted
             ELSE Err(UnknownWordError, ws[b])
    ELSE CheckAndUnpack([k \in 1..Len(ws) |-> Format011b(find_word(ws[k]))])

(***************************************************************************)
(* The phrases the model decodes.  A phrase of n words is the phrase of    *)
(* tests::decode_full_words (repeated beyond its twelfth word) with the    *)
(* words at the first VariedFront positions and at position 12 replaced    *)
(* by any of UserWords; n is 0, 11, or 12 up to MaxWords.                  *)
(***************************************************************************)
MaxWords == 13
VariedFront == 2

BaseWord(k) == TestWords[((k - 1) % Len(TestWords)) + 1]

VariedPositions == (1..VariedFront) \cup {WORD_COUNT}

\* The lengths of the phrases: none, one short of twelve, twelve, and more.
WordCounts == {0} \cup ((WORD_COUNT - 1)..MaxWords)

Phrases ==
    UNION { { [k \in 1..n |-> IF k \in DOMAIN f /\ f[k] # <<>>
                              THEN f[k] ELSE BaseWord(k)] :
                f \in [VariedPositions \cap (1..n) -> UserWords \cup {<<>>}] } :
            n \in WordCounts }

(***************************************************************************)
(* mnemonic_to_entropy, statement by statement                             *)
(***************************************************************************)
\* sweep_destination = None; the payees' addresses are strings.
NoDestination == "none"

\* The pay command's data while no pay command runs.
PayIdle ==
    /\ payees = <<>>
    /\ self_fee = None
    /\ account = [balance |-> 0, dc_balance |-> 0]
    /\ oracle_price = 0
    /\ sweep_destination = NoDestination
    /\ pay_total = 0
    /\ txn = [fee |-> 0, payments |-> <<>>]
    /\ fee = 0

CmdIdle ==
    /\ cmd = "none" /\ commit = FALSE /\ payer = "none" /\ update = "none"
    /\ cpc = "idle"
    /\ status = "none" /\ submitted = 0 /\ printed = 0
    /\ PayIdle

Init ==
    /\ words \in Phrases
    /\ pc = "count"
    /\ i = 0
    /\ bit_vec = <<>>
    /\ entropy_bits = <<>>
    /\ result = NoResult
    /\ CmdIdle

\* Lines 42-48: the length test, and the empty bit_vec.
CheckCount ==
    /\ pc = "count"
    /\ IF InvalidWordCount(words)
       THEN /\ result' = Err(WordCountError, <<>>)
            /\ pc' = "done"
       ELSE /\ pc' = "resolve"
            /\ UNCHANGED result
    /\ UNCHANGED <<words, i, bit_vec, entropy_bits>>
    /\ UNCHANGED cvars
    /\ UNCHANGED pvars

\* Lines 49-55: one iteration of the for loop over the words.
ResolveWord ==
    /\ pc = "resolve"
    /\ i < Len(words)
    /\ LET user_word == words[i + 1]
           found == find_word(user_word)
       IN  IF found = Abort
           THEN /\ result' = Aborted
                /\ pc' = "done"
                /\ UNCHANGED <<i, bit_vec>>
           ELSE IF found = None
           THEN /\ result' = Err(UnknownWordError, user_word)
                /\ pc' = "done"
                /\ UNCHANGED <<i, bit_vec>>
           ELSE /\ bit_vec' = Append(bit_vec, Format011b(found))
                /\ i' = i + 1
                /\ UNCHANGED <<pc, result>>
    /\ UNCHANGED <<words, entropy_bits>>
    /\ UNCHANGED cvars
    /\ UNCHANGED pvars

\* Lines 56-64: join, split at divider_index, and the checksum test.
SplitBits ==
    /\ pc = "resolve"
    /\ i = Len(words)
    /\ LET bits == Join(bit_vec)
           d == divider_index(bits)
           checksum_bits == SubSeq(bits, d + 1, Len(bits))
       IN  IF checksum_bits # ZERO_CHECKSUM
           THEN /\ result' = Err(ChecksumError, <<>>)
                /\ pc' = "done"
                /\ UNCHANGED entropy_bits
           ELSE /\ entropy_bits' = SubSeq(bits, 1, d)
                /\ pc' = "unpack"
                /\ UNCHANGED result
    /\ UNCHANGED <<words, i, bit_vec>>
    /\ UNCHANGED cvars
    /\ UNCHANGED pvars

\* Lines 70-79: the bytes of the entropy bits, twice.
Unpack ==
    /\ pc = "unpack"
    /\ result' = Ok(EntropyBytes(EntropyBase(entropy_bits)))
    /\ pc' = "done"
    /\ UNCHANGED <<words, i, bit_vec, entropy_bits>>
    /\ UNCHANGED cvars
    /\ UNCHANGED pvars

Next == CheckCount \/ ResolveWord \/ SplitBits \/ Unpack

Spec == Init /\ [][Next]_vars

\* The statements compute what the function is defined to return.
StepsAgree == pc = "done" => result = mnemonic_to_entropy(words)

(***************************************************************************)
(* Notions the properties are stated in                                    *)
(***************************************************************************)
DictWords == {WORDS_ENGLISH[k].word : k \in 1..Len(WORDS_ENGLISH)}

\* The call is over and its argument had twelve words.
Decoded == pc = "done" /\ Len(words) = 12

Resolves(w) == find_word(w) >= 0

\* The first position of ws whose word the resolver gives no index for.
FirstUnresolved(ws) ==
    CHOOSE k \in 1..Len(ws) :
        ~Resolves(ws[k]) /\ \A j \in 1..(k - 1) : Resolves(ws[j])

RECURSIVE Pow2(_)
Pow2(n) == IF n = 0 THEN 1 ELSE 2 * Pow2(n - 1)

\* Bit k (from 0) of the stream of the twelve 11-bit indices of ws, most
\* significant bit of each index first.
StreamBit(ws, k) == (find_word(ws[(k \div 11) + 1]) \div Pow2(10 - (k % 11))) % 2

\* The value of bits 8b .. 8b+7 of that stream, most significant bit first.
StreamByte(ws, b) ==
    StreamBit(ws, 8 * b) * 128 + StreamBit(ws, 8 * b + 1) * 64
    + StreamBit(ws, 8 * b + 2) * 32 + StreamBit(ws, 8 * b + 3) * 16
    + StreamBit(ws, 8 * b + 4) * 8 + StreamBit(ws, 8 * b + 5) * 4
    + StreamBit(ws, 8 * b + 6) * 2 + StreamBit(ws, 8 * b + 7)

HalvesEqual(r) ==
    /\ Len(r.bytes) = 32
    /\ \A b \in 1..16 : r.bytes[b] = r.bytes[b + 16]

\* Same bytes, or the same kind of failure.
SameOutcome(r1, r2) == r1.kind = r2.kind /\ r1.bytes = r2.bytes

(***************************************************************************)
(* C1                                                                      *)
(***************************************************************************)
\* C1 as stated: every phrase of twelve dictionary words decodes, to 32
\* bytes whose first sixteen equal the last sixteen.
C1_EveryDictionaryPhraseDecodes ==
    (Decoded /\ \A k \in 1..12 : words[k] \in DictWords)
        => (result.kind = "Ok" /\ HalvesEqual(result))

\* C1, amended: a phrase of twelve dictionary words whose twelfth word has
\* an index that is a multiple of 16 decodes, and every value decode
\* returns has 32 bytes, bytes 0..15 equal to bytes 16..31.
C1_DictionaryPhraseDecodesWhenChecksumZero ==
    /\ (Decoded /\ (\A k \in 1..12 : words[k] \in DictWords)
               /\ find_word(words[12]) % 16 = 0)
           => result.kind = "Ok"
    /\ (pc = "done" /\ result.kind = "Ok") => HalvesEqual(result)

C1_Witness ==
    /\ Decoded /\ result.kind = "Ok"
    /\ \A k \in 1..12 : words[k] \in DictWords
    /\ words[12] = <<"a","b","a","n","d","o","n">>
    /\ words[1] = <<"z","o","o">>
    /\ result.bytes[1] # result.bytes[2]

(***************************************************************************)
(* C2                                                                      *)
(***************************************************************************)
\* C2: on success byte b of the output is the value of bits 8b..8b+7 of the
\* 132-bit stream of the twelve zero-padded 11-bit indices in phrase order;
\* the stream is cut at offset 128 and only its first 128 bits reach the
\* output.
C2_BytesAreTheStreamBits ==
    (pc \in {"unpack", "done"} /\ (pc = "done" => result.kind = "Ok"))
        => /\ Len(Join(bit_vec)) = 132
           /\ \A k \in 1..12 : Len(bit_vec[k]) = 11
           /\ Len(entropy_bits) = 128
           /\ \A k \in 0..127 :
                entropy_bits[k + 1] = (IF StreamBit(words, k) = 1 THEN "1" ELSE "0")
           /\ pc = "done" =>
                \A b \in 0..15 : result.bytes[b + 1] = StreamByte(words, b)

\* The entropy tests::decode_full_words expects for its phrase.
ExpectedEntropy ==
    << 36, 20, 228, 174, 58, 204, 4, 238, 56, 84, 250, 113, 3, 236, 26, 171,
       36, 20, 228, 174, 58, 204, 4, 238, 56, 84, 250, 113, 3, 236, 26, 171 >>

C2_Witness ==
    /\ pc = "done" /\ result.kind = "Ok"
    /\ words = TestWords
    /\ result.bytes = ExpectedEntropy

(***************************************************************************)
(* C3                                                                      *)
(***************************************************************************)
\* C3: when all twelve words resolve, decode fails with ChecksumError
\* exactly when the last four bits of the stream are not 0000, which is
\* when the index of the twelfth word is not a multiple of 16, and succeeds
\* otherwise; the first eleven words have no part in it.
C3_ChecksumIsTheLastWordsLowBits ==
    (Decoded /\ \A k \in 1..12 : Resolves(words[k]))
        => LET bits == Join(bit_vec)
           IN  /\ Len(bits) = 132
               /\ (SubSeq(bits, 129, 132) # <<"0","0","0","0">>)
                     <=> (find_word(words[12]) % 16 # 0)
               /\ (result.kind = ChecksumError) <=> (find_word(words[12]) % 16 # 0)
               /\ (result.kind = "Ok") <=> (find_word(words[12]) % 16 = 0)

C3_Witness ==
    /\ Decoded /\ result.kind = ChecksumError
    /\ \A k \in 1..12 : Resolves(words[k])
    /\ find_word(words[12]) = 2047
    /\ words[1] # TestWords[1]

(***************************************************************************)
(* C4                                                                      *)
(***************************************************************************)
\* C4: a phrase of twelve words of which one does not resolve fails with
\* UnknownWordError carrying the first such word as it was supplied; no
\* later word is resolved and no entropy is returned, whatever the
\* checksum bits would be.
C4_FirstUnresolvedWordIsNamed ==
    (Decoded /\ \E k \in 1..12 : ~Resolves(words[k]))
        => /\ result = Err(UnknownWordError, words[FirstUnresolved(words)])
           /\ i = FirstUnresolved(words) - 1
           /\ Len(bit_vec) = i

\* What the code does keep of C4: unless the resolver aborts, the call
\* returns UnknownWordError with the first word that has no index, having
\* resolved the words before it and none after; with an abort, nothing is
\* returned at all.
UnknownWordOrAbort ==
    (Decoded /\ \E k \in 1..12 : ~Resolves(words[k]))
        => LET b == FirstUnresolved(words)
           IN  /\ i = b - 1 /\ Len(bit_vec) = i
               /\ result = (IF find_word(words[b]) = Abort THEN Aborted
                            ELSE Err(UnknownWordError, words[b]))

(***************************************************************************)
(* C5                                                                      *)
(***************************************************************************)
\* C5: decode fails with WordCountError if and only if the phrase does not
\* have twelve words, and then no word has been resolved, whatever the
\* words are.
C5_WordCountFirst ==
    pc = "done"
        => /\ (result.kind = WordCountError) <=> (Len(words) # 12)
           /\ (Len(words) # 12) => (i = 0 /\ bit_vec = <<>> /\ result.word = <<>>)

C5_Witness ==
    /\ pc = "done" /\ result.kind = WordCountError
    /\ Len(words) = 13
    /\ ~Resolves(words[1])
    /\ find_word(words[12]) % 16 # 0

(***************************************************************************)
(* C6                                                                      *)
(***************************************************************************)
MaxAbbrev == 2

\* The sets of positions abbreviated: all of at most MaxAbbrev positions,
\* and all twelve at once.
AbbrevSets ==
    {S \in SUBSET (1..12) : Cardinality(S) <= MaxAbbrev} \cup {1..12}

AbbreviateAt(ws, S) ==
    [k \in 1..Len(ws) |-> IF k \in S THEN Abbreviation(ws[k]) ELSE ws[k]]

\* No two list words of four letters or more start with the same four.
PrefixesUnique ==
    \A a, b \in DictWords :
        (a # b /\ Len(a) >= 4 /\ Len(b) >= 4) => SubSeq(a, 1, 4) # SubSeq(b, 1, 4)

\* C6: in a phrase of twelve dictionary words, cutting any of the words of
\* four characters or more down to their first four gives the same bytes,
\* or the same kind of error, as the full phrase (the list having no two
\* words with the same first four characters).
C6_AbbreviationsDecodeAlike ==
    (Decoded /\ PrefixesUnique /\ \A k \in 1..12 : words[k] \in DictWords)
        => \A S \in AbbrevSets :
              SameOutcome(mnemonic_to_entropy(AbbreviateAt(words, S)), result)

C6_Witness ==
    /\ Decoded /\ result.kind = "Ok"
    /\ \A k \in 1..12 : words[k] \in DictWords
    /\ words[1] = <<"z","o","o">>
    /\ Abbreviation(words[12]) \notin DictWords
    /\ mnemonic_to_entropy(AbbreviateAt(words, 1..12)) = result

(***************************************************************************)
(* C7                                                                      *)
(***************************************************************************)
\* The phrases that differ from ws in the case of letters only: all words
\* in small letters, all in capitals, and one word in either.
CaseVariants(ws) ==
    { [k \in 1..Len(ws) |-> to_ascii_lowercase(ws[k])],
      [k \in 1..Len(ws) |-> to_ascii_uppercase(ws[k])] }
    \cup { [ws EXCEPT ![k] = to_ascii_lowercase(ws[k])] : k \in 1..Len(ws) }
    \cup { [ws EXCEPT ![k] = to_ascii_uppercase(ws[k])] : k \in 1..Len(ws) }

\* C7: changing the case of letters of a phrase does not change what decode
\* gives: the same 32 bytes, or an error of the same kind (for an unknown
\* word, at the same word).
C7_CaseDoesNotMatter ==
    pc = "done"
        => \A q \in CaseVariants(words) :
              LET r == mnemonic_to_entropy(q)
              IN  /\ SameOutcome(r, result)
                  /\ to_ascii_lowercase(r.word) = to_ascii_lowercase(result.word)

C7_Witness ==
    /\ Decoded /\ result.kind = "Ok"
    /\ words[1] = <<"Z","O","O">>
    /\ words[12] = <<"C","a","t","c">>
    /\ \E q \in CaseVariants(words) : q # words /\ q[12] = <<"c","a","t","c">>

(***************************************************************************)
(* C8                                                                      *)
(***************************************************************************)
\* Rule (a): both words have four characters or more and the same first four.
RuleA(lw, e) ==
    /\ Len(lw) >= 4 /\ Len(e.word) >= 4
    /\ SubSeq(lw, 1, 4) = SubSeq(e.word, 1, 4)

\* Rule (b): the words are equal.
RuleB(lw, e) == lw = e.word

\* The list positions that satisfy (a) or (b) for the user's word.
Matching(w) ==
    {k \in 1..Len(WORDS_ENGLISH) :
        \/ RuleA(to_ascii_lowercase(w), WORDS_ENGLISH[k])
        \/ RuleB(to_ascii_lowercase(w), WORDS_ENGLISH[k])}

SmallestMatch(w) ==
    IF Matching(w) = {} THEN None
    ELSE WORDS_ENGLISH[CHOOSE k \in Matching(w) : \A j \in Matching(w) : k <= j].idx

\* The positions of the phrase the for loop has handed to find_word.
LookedUp ==
    IF pc = "count" \/ InvalidWordCount(words) THEN {}
    ELSE 1..(IF pc = "done" /\ i < Len(words) THEN i + 1 ELSE i)

\* C8: find_word returns the smallest index that satisfies rule (a) or
\* rule (b) for the lowercased word, and None exactly when there is none.
C8_SmallestMatchOrNone ==
    \A k \in LookedUp : find_word(words[k]) = SmallestMatch(words[k])

\* What the code does keep of C8: the same, for the words on which the
\* resolver does not abort.
SmallestMatchUnlessAbort ==
    \A k \in LookedUp :
        find_word(words[k]) # Abort => find_word(words[k]) = SmallestMatch(words[k])

(***************************************************************************)
(* C9                                                                      *)
(***************************************************************************)
\* Absent, as C9 has it: in small letters the word is no list word and not
\* the first four characters of one.
Absent(w) ==
    /\ to_ascii_lowercase(w) \notin DictWords
    /\ to_ascii_lowercase(w) \notin {Abbreviation(d) : d \in {x \in DictWords : Len(x) >= 4}}

FirstUnmatched(ws) ==
    CHOOSE k \in 1..Len(ws) :
        Matching(ws[k]) = {} /\ \A j \in 1..(k - 1) : Matching(ws[j]) # {}

Outcomes == {"Ok", WordCountError, UnknownWordError, ChecksumError}

\* C11: whatever the phrase, decode ends with a 32-byte value, with
\* WordCountError, with UnknownWordError or with ChecksumError, and the
\* resolver returns an index or None for every word it is given: it never
\* aborts, also not on a word whose fourth byte lies inside a character.
C11_DecodeNeverAborts ==
    /\ pc = "done" =>
            /\ result.kind \in Outcomes
            /\ result.kind = "Ok" => Len(result.bytes) = 2 * ENTROPY_BASE_LEN
    /\ \A k \in LookedUp : find_word(words[k]) # Abort

\* What the code does keep of C11: a run that ends has one of the four
\* outcomes or has aborted, and it has aborted exactly when the last word
\* looked up made user_word[..4] cut a character in two.
OutcomeOrAbort ==
    pc = "done" =>
        /\ result.kind \in Outcomes \cup {"abort"}
        /\ result.kind = "Ok" => Len(result.bytes) = 2 * ENTROPY_BASE_LEN
        /\ result = Aborted <=>
                /\ ~InvalidWordCount(words)
                /\ i < Len(words)
                /\ find_word(words[i + 1]) = Abort

(***************************************************************************)
(* The pay and oui commands: one run of run(), from the parsed options to  *)
(* its return.  A call that ends in `?` either goes on or makes run()      *)
(* return the error; where the wallet, the network or the arguments decide *)
(* which, the model takes both ways.                                       *)
(***************************************************************************)
Commands == {"pay", "oui create", "oui update", "oui submit"}

\* --payer of oui create: not given, the wallet's own key, another key.
Payers == {"none", "wallet", "other"}

UpdateKinds == {"Routers", "NewXor", "UpdateXor", "RequestSubset"}

MnemonicIdle ==
    /\ words = <<>> /\ pc = "idle" /\ i = 0 /\ bit_vec = <<>>
    /\ entropy_bits = <<>> /\ result = NoResult

\* Statements that end in `?` between two positions of run(): on to the
\* next position, or out with the error.
Try(from, to) ==
    /\ cpc = from
    /\ cpc' \in {to, "failed"}
    /\ UNCHANGED <<cmd, commit, payer, update, status, submitted, printed>>
    /\ UNCHANGED mvars
    /\ UNCHANGED pvars

\* Statements that cannot fail.
Go(from, to) ==
    /\ cpc = from
    /\ cpc' = to
    /\ UNCHANGED <<cmd, commit, payer, update, status, submitted, printed>>
    /\ UNCHANGED mvars
    /\ UNCHANGED pvars

\* let status = if commit { Some(client.submit_txn(&envelope)?) } else { None };
Status(from, gate) ==
    /\ cpc = from
    /\ IF gate
       THEN /\ submitted' = submitted + 1
            /\ \/ status' = "some" /\ cpc' = "print"
               \/ status' = status /\ cpc' = "failed"
       ELSE /\ status' = "none"
            /\ cpc' = "print"
            /\ UNCHANGED submitted
    /\ UNCHANGED <<cmd, commit, payer, update, printed>>
    /\ UNCHANGED mvars
    /\ UNCHANGED pvars

\* print_txn(&txn, &envelope, &status, opts.format), whose Result run() returns.
PrintTxn ==
    /\ cpc = "print"
    /\ printed' = printed + 1
    /\ cpc' \in {"done", "failed"}
    /\ UNCHANGED <<cmd, commit, payer, update, status, submitted>>
    /\ UNCHANGED mvars
    /\ UNCHANGED pvars

(***************************************************************************)
(* The pay command's data.  Amounts are u64 numbers of bones, fees u64      *)
(* numbers of DC.  A u64 subtraction that goes below zero panics in a build *)
(* with overflow checks and wraps in one without; the wrapped value         *)
(* 2^64 + v is written as v < 0 here, which keeps equality and the further  *)
(* subtractions exact.                                                      *)
(***************************************************************************)
\* enum Amount { HNT(Hnt), Sweep }; an Hnt is held as its to_bones().
HNT(bones) == [kind |-> "HNT", bones |-> bones]

Sweep == [kind |-> "Sweep", bones |-> 0]

to_bones(amount) == amount.bones

\* PubKeyBin::from_b58(&p.address)?: "!" stands for the addresses that do
\* not parse into a public key.
Addresses == {"a", "b", "!"}

from_b58_ok(address) == address # "!"

MaxPayees == 2

HntAmounts == {HNT(1), HNT(3)}

Payees == [address : Addresses, amount : HntAmounts \cup {Sweep}]

PayeeLists == UNION {[1..n -> Payees] : n \in 1..MaxPayees}

FeeOptions == {None, 0, 3}

Accounts == [balance : {2, 130}, dc_balance : {0, 5}]

OraclePrices == {1000, 3000}

\* pay.rs 52-68, the closure of the map, applied to one payee; collect()
\* stops at the first Err, so nothing happens after one.
PayeeStep(acc, p) ==
    IF acc.outcome # "ok" THEN acc
    ELSE IF p.amount.kind = "HNT"
    THEN LET amount == to_bones(p.amount)
             total  == acc.pay_total + amount
         IN  IF from_b58_ok(p.address)
             THEN [acc EXCEPT !.pay_total = total,
                              !.payments = Append(@, [payee |-> p.address,
                                                      amount |-> amount])]
             ELSE [acc EXCEPT !.pay_total = total, !.outcome = "err"]
    ELSE IF acc.sweep_destination = NoDestination
    THEN IF from_b58_ok(p.address)
         THEN [acc EXCEPT !.sweep_destination = p.address,
                          !.payments = Append(@, [payee |-> p.address,
                                                  amount |-> 0])]
         ELSE [acc EXCEPT !.outcome = "err"]
    ELSE [acc EXCEPT !.outcome = "panic"]

RECURSIVE CollectFrom(_, _, _)
CollectFrom(acc, ps, k) ==
    IF k > Len(ps) THEN acc
    ELSE CollectFrom(PayeeStep(acc, ps[k]), ps, k + 1)

\* pay.rs 46-69: the two locals and the collected payments.
Collect(ps) ==
    CollectFrom([outcome |-> "ok", sweep_destination |-> NoDestination,
                 pay_total |-> 0, payments |-> <<>>], ps, 1)

RECURSIVE Pow10(_)
Pow10(n) == IF n = 0 THEN 1 ELSE 10 * Pow10(n - 1)

CeilDiv(a, b) == (a + b - 1) \div b

\* fee was given in DC, which is $ 10^-5 (pay.rs 231-232)
DC_DECIMALS == 5

\* change scale by 8 decimals to get value in bones (pay.rs 233-234)
BONES_DECIMALS == 8

\* pay.rs 232-236: fee / oracle_price in HNT, eight decimals up, rounded up.
\* Line 234 and the right side of line 236 name bones_needed where the
\* value at hand is hnt_needed; the model computes what the comments say.
bones_needed(f, price) ==
    CeilDiv(f * Pow10(BONES_DECIMALS - DC_DECIMALS), price)

\* pay.rs 212-244, without the oracle call's `?`.
calculate_sweep(acct, total, f, price) ==
    IF acct.dc_balance > f
    THEN acct.balance - total
    ELSE acct.balance - total - bones_needed(f, price)

\* calculate_sweep asks for the oracle price in its else branch only.
AsksOracle(acct, f) == ~(acct.dc_balance > f)

\* pay.rs 83-87 and 97-101: for payment in &mut txn.payments.
SetSweep(payments, destination, amount) ==
    [k \in DOMAIN payments |->
        IF payments[k].payee = destination
        THEN [payments[k] EXCEPT !.amount = amount]
        ELSE payments[k]]

\* Bytes of a u64 as a protobuf varint: none for 0 (the field is left out),
\* one per seven bits otherwise, ten for a wrapped value near 2^64.
VARINT_BASE == 128

WRAPPED_VARINT_LEN == 10

VarintLen(a) ==
    IF a < 0 THEN WRAPPED_VARINT_LEN
    ELSE IF a = 0 THEN 0
    ELSE IF a < VARINT_BASE THEN 1
    ELSE 2

RECURSIVE EncodedLen(_)
EncodedLen(payments) ==
    IF payments = <<>> THEN 0
    ELSE 1 + VarintLen(Head(payments).amount) + EncodedLen(Tail(payments))

\* TxnFee::txn_fee: a fee that grows with the encoded size of the
\* transaction, here one DC for each payee and each byte of an amount.  The
\* fee field is not part of what is measured.
txn_fee(t) == EncodedLen(t.payments)

\* The options and what the API answers are there from the start; run()'s
\* locals get their values on the way.
PayInit ==
    IF cmd = "pay"
    THEN /\ payees \in PayeeLists
         /\ self_fee \in FeeOptions
         /\ account \in Accounts
         /\ oracle_price \in OraclePrices
         /\ sweep_destination = NoDestination
         /\ pay_total = 0
         /\ txn = [fee |-> 0, payments |-> <<>>]
         /\ fee = 0
    ELSE PayIdle

CmdInit ==
    /\ MnemonicIdle
    /\ cmd \in Commands
    /\ commit \in BOOLEAN
    /\ payer \in (IF cmd = "oui create" THEN Payers ELSE {"none"})
    /\ update \in (IF cmd = "oui update" THEN UpdateKinds ELSE {"none"})
    /\ cpc = "start"
    /\ status = "unset"
    /\ submitted = 0
    /\ printed = 0
    /\ PayInit

\* pay.rs 38-44: password, wallet, keypair, account.
PaySetup ==
    /\ cmd = "pay"
    /\ Try("start", "build")

\* pay.rs 46-76: the payments and the transaction with fee 0; a payee
\* address may not parse, and a second sweep payee panics.
PayBuild ==
    /\ cmd = "pay" /\ cpc = "build"
    /\ LET c == Collect(payees)
       IN  /\ sweep_destination' = c.sweep_destination
           /\ pay_total' = c.pay_total
           /\ IF c.outcome = "ok"
              THEN /\ txn' = [fee |-> 0, payments |-> c.payments]
                   /\ cpc' = "fee"
              ELSE /\ txn' = txn
                   /\ cpc' = (IF c.outcome = "err" THEN "failed" ELSE "panicked")
    /\ UNCHANGED <<cmd, commit, payer, update, status, submitted, printed>>
    /\ UNCHANGED <<payees, self_fee, account, oracle_price, fee>>
    /\ UNCHANGED mvars

\* What the three fee actions leave alone.
FeeFrame ==
    /\ UNCHANGED <<cmd, commit, payer, update, status, submitted, printed>>
    /\ UNCHANGED <<payees, self_fee, account, oracle_price,
                   sweep_destination, pay_total>>
    /\ UNCHANGED mvars

\* pay.rs 78-89: the fee set by hand; calculate_sweep is handed &txn.fee.
PayFeeByHand ==
    /\ cmd = "pay" /\ cpc = "fee" /\ self_fee # None
    /\ IF sweep_destination # NoDestination
       THEN LET amount == calculate_sweep(account, pay_total, txn.fee,
                                          oracle_price)
            IN  \/ /\ AsksOracle(account, txn.fee)
                   /\ cpc' = "failed" /\ txn' = txn
                \/ /\ amount < 0
                   /\ cpc' = "panicked" /\ txn' = txn
                \/ /\ txn' = [fee |-> self_fee,
                              payments |-> SetSweep(txn.payments,
                                                    sweep_destination, amount)]
                   /\ cpc' = "sign"
       ELSE /\ txn' = [txn EXCEPT !.fee = self_fee]
            /\ cpc' = "sign"
    /\ fee' = fee
    /\ FeeFrame

\* pay.rs 93: the first fee of the iterative branch.
PayFeeFirst ==
    /\ cmd = "pay" /\ cpc = "fee" /\ self_fee = None
    /\ sweep_destination # NoDestination
    /\ \/ cpc' = "failed" /\ fee' = fee
       \/ cpc' = "loop" /\ fee' = txn_fee(txn)
    /\ txn' = txn
    /\ FeeFrame

\* pay.rs 94-109: one turn of the loop, and `fee` into txn.fee at the break.
PayFeeLoop ==
    /\ cmd = "pay" /\ cpc = "loop"
    /\ LET sweep_amount == calculate_sweep(account, pay_total, fee,
                                           oracle_price)
           paid    == SetSweep(txn.payments, sweep_destination, sweep_amount)
           new_fee == txn_fee([txn EXCEPT !.payments = paid])
       IN  \/ /\ AsksOracle(account, fee)
              /\ cpc' = "failed" /\ txn' = txn /\ fee' = fee
           \/ /\ sweep_amount < 0
              /\ cpc' = "panicked" /\ txn' = txn /\ fee' = fee
           \/ /\ cpc' = "failed"
              /\ txn' = [txn EXCEPT !.payments = paid] /\ fee' = fee
           \/ IF new_fee = fee
              THEN /\ txn' = [fee |-> fee, payments |-> paid]
                   /\ cpc' = "sign" /\ fee' = fee
              ELSE /\ txn' = [txn EXCEPT !.payments = paid]
                   /\ cpc' = "loop" /\ fee' = new_fee
    /\ FeeFrame

\* pay.rs 111: no sweep payee, the fee of the transaction as it is.
PayFeeNoSweep ==
    /\ cmd = "pay" /\ cpc = "fee" /\ self_fee = None
    /\ sweep_destination = NoDestination
    /\ \/ cpc' = "failed" /\ txn' = txn
       \/ cpc' = "sign" /\ txn' = [txn EXCEPT !.fee = txn_fee(txn)]
    /\ fee' = fee
    /\ FeeFrame

\* pay.rs 115-116: signature and envelope.
PaySign ==
    /\ cmd = "pay"
    /\ Try("sign", "status")

\* pay.rs 117-121
PayStatus ==
    /\ cmd = "pay"
    /\ Status("status", commit)

\* pay.rs 123
PayPrint ==
    /\ cmd = "pay"
    /\ PrintTxn

\* oui.rs 147-152
CreateSetup ==
    /\ cmd = "oui create"
    /\ Try("start", "build")

\* oui.rs 154-174: the transaction, its fees, signature and envelope.
CreateBuild ==
    /\ cmd = "oui create"
    /\ Try("build", "status")

\* A test that takes any payer for the wallet.
PayerIsWallet_any_payer(key) == TRUE

\* oui.rs 177: key == Some(wallet_key) || key.is_none()
PayerIsWallet(key) == key = "wallet" \/ key = "none"

\* oui.rs 176-190: submit if the wallet pays and --commit is given; with
\* another payer the status printed is None.
CreateStatus ==
    /\ cmd = "oui create"
    /\ Status("status", PayerIsWallet(payer) /\ commit)

\* oui.rs 184, 189
CreatePrint ==
    /\ cmd = "oui create"
    /\ PrintTxn

\* oui.rs 197-200
UpdateSetup ==
    /\ cmd = "oui update"
    /\ Try("start", "build")

\* oui.rs 202-235: the update; the filter of the two Xor updates may not
\* be base64.
UpdateBuild ==
    /\ cmd = "oui update"
    /\ IF update \in {"NewXor", "UpdateXor"}
       THEN Try("build", "fee")
       ELSE Go("build", "fee")

\* oui.rs 237-249: the transaction, its fees, signature and envelope.
UpdateFee ==
    /\ cmd = "oui update"
    /\ Try("fee", "status")

\* oui.rs 251-255
UpdateStatus ==
    /\ cmd = "oui update"
    /\ Status("status", commit)

\* oui.rs 256
UpdatePrint ==
    /\ cmd = "oui update"
    /\ PrintTxn

\* oui.rs 262-263, 271-273: the transaction from base64; anything but an
\* OUI transaction is an error.
SubmitParse ==
    /\ cmd = "oui submit"
    /\ Try("start", "status")

\* oui.rs 264-269
SubmitStatus ==
    /\ cmd = "oui submit"
    /\ Status("status", commit)

\* oui.rs 270
SubmitPrint ==
    /\ cmd = "oui submit"
    /\ PrintTxn

CmdNext ==
    \/ PaySetup \/ PayBuild
    \/ PayFeeByHand \/ PayFeeFirst \/ PayFeeLoop \/ PayFeeNoSweep
    \/ PaySign \/ PayStatus \/ PayPrint
    \/ CreateSetup \/ CreateBuild \/ CreateStatus \/ CreatePrint
    \/ UpdateSetup \/ UpdateBuild \/ UpdateFee \/ UpdateStatus \/ UpdatePrint
    \/ SubmitParse \/ SubmitStatus \/ SubmitPrint

CmdSpec == CmdInit /\ [][CmdNext]_vars

(***************************************************************************)
(* C10                                                                     *)
(***************************************************************************)
\* C10: submit_txn is called only in a run that was given --commit; a run
\* without --commit that comes to its end has printed the transaction,
\* with no status, and has submitted nothing; oui create with a payer that
\* is not the wallet's key never submits, --commit or not.
C10_SubmitOnlyOnCommit ==
    /\ submitted > 0 => commit
    /\ (cmd = "oui create" /\ payer = "other") => submitted = 0
    /\ status = "some" => submitted = 1
    /\ (~commit /\ cpc \in {"print", "done"}) => (status = "none" /\ submitted = 0)
    /\ cpc = "done" => printed = 1

C10_Witness ==
    /\ cmd = "oui create" /\ payer = "other" /\ commit
    /\ cpc = "done" /\ printed = 1 /\ submitted = 0

(***************************************************************************)
(* C12                                                                     *)
(***************************************************************************)
\* The fee is in txn.fee and the payments have their final amounts.
FeeSet == cmd = "pay" /\ cpc \in {"sign", "status", "print", "done"}

\* The positions of the payees given as <address>=sweep.
SweepPayees == {k \in DOMAIN payees : payees[k].amount = Sweep}

\* calculate_sweep for the fee F, with the account, the total and the oracle
\* price of this run.
SweepFor(F) == calculate_sweep(account, pay_total, F, oracle_price)

\* C12: with a sweep payee, the sweep payment of the final transaction is
\* calculate_sweep(account, pay_total, F) for the fee F that the transaction
\* carries, whether F was computed in the loop or given with --fee.
C12_SweepLeavesTheFinalFee ==
    (FeeSet /\ sweep_destination # NoDestination) =>
        \A k \in SweepPayees : txn.payments[k].amount = SweepFor(txn.fee)

\* What the code does keep of C12: the loop ends with the sweep of the fee
\* it hands to txn.fee; with --fee the sweep is that of fee 0, the whole of
\* balance - pay_total, whatever the fee and the DC balance are.
SweepOfLoopFeeOrOfZero ==
    (FeeSet /\ sweep_destination # NoDestination) =>
        \A k \in SweepPayees :
            IF self_fee = None
            THEN txn.fee = fee /\ txn.payments[k].amount = SweepFor(txn.fee)
            ELSE /\ txn.fee = self_fee
                 /\ txn.payments[k].amount = account.balance - pay_total

(***************************************************************************)
(* C13                                                                     *)
(***************************************************************************)
\* The positions of the payees given with an HNT amount.
HntPayees == {k \in DOMAIN payees : payees[k].amount.kind = "HNT"}

RECURSIVE SumAmounts(_, _)
SumAmounts(payments, ks) ==
    IF ks = {} THEN 0
    ELSE LET k == CHOOSE x \in ks : TRUE
         IN  payments[k].amount + SumAmounts(payments, ks \ {k})

\* C13: the sweep amount goes into the payment of the sweep payee only:
\* every payee given with an HNT amount has that amount in the final
\* transaction, also when its address is the sweep destination, and these
\* amounts add up to pay_total.
C13_OnlyTheSweepPaymentChanges ==
    FeeSet =>
        /\ \A k \in HntPayees :
               txn.payments[k].amount = to_bones(payees[k].amount)
        /\ SumAmounts(txn.payments, HntPayees) = pay_total

\* What the code does keep of C13: a payment keeps its HNT amount when its
\* address is not the sweep destination, and carries the sweep amount when
\* it is; pay_total is the sum of the amounts as they were given.
SweepGoesToEveryPaymentOfTheAddress ==
    FeeSet =>
        /\ Len(txn.payments) = Len(payees)
        /\ \A k \in HntPayees :
               /\ txn.payments[k].payee = payees[k].address
               /\ IF payees[k].address = sweep_destination
                  THEN \A j \in SweepPayees :
                           txn.payments[k].amount = txn.payments[j].amount
                  ELSE txn.payments[k].amount = to_bones(payees[k].amount)
        /\ SumAmounts([k \in DOMAIN payees |-> [amount |-> payees[k].amount.bones]],
                      HntPayees) = pay_total

====
